---- MODULE Spec2Model ----
(***************************************************************************)
(* Model of supplier_quotation_list.js: the list-view settings entry that  *)
(* the script registers under frappe.listview_settings['Supplier           *)
(* Quotation'], and the host's calls of its get_indicator on list rows.    *)
(***************************************************************************)
EXTENDS Integers, Sequences, FiniteSets, TLC

\* ---------------------------------------------------------------- bounds
NumDocs == 2      \* list rows the host holds
MaxCalls == 2     \* get_indicator calls per row

\* ------------------------------------------------------ JavaScript values
Undefined == [t |-> "undefined", v |-> "undefined"]
Null == [t |-> "null", v |-> "null"]
Str(s) == [t |-> "string", v |-> s]
\* a boxed string, new String(s): an object, not a primitive
StringObject(s) == [t |-> "String", v |-> s]
Array(items) == [t |-> "array", items |-> items]
Obj(fields) == [t |-> "object", fields |-> fields]

PrimitiveTypes == {"undefined", "null", "string"}

\* completion records of a call
Return(value) == [kind |-> "return", value |-> value]
Throw(error) == [kind |-> "throw", error |-> error]
NotCalled == [kind |-> "none"]

\* a == b: null and undefined are alike, a boxed string is coerced
LooseEquals(a, b) ==
    \/ a.t \in {"null", "undefined"} /\ b.t \in {"null", "undefined"}
    \/ a.t \in {"string", "String"} /\ b.t \in {"string", "String"} /\ a.v = b.v

\* a === b, for the comparisons the script makes (b is a string literal):
\* same type and same value, no coercion; an object is never === a primitive
StrictEquals(a, b) ==
    /\ a.t \in PrimitiveTypes
    /\ a.t = b.t
    /\ a.v = b.v

\* ------------------------------------------------------------- the inputs
SQ == "Supplier Quotation"
PO == "Purchase Order"
Doctypes == {SQ, PO}

StatusValues ==
    { Str("Ordered"), Str("Rejected"), Str("Draft"), Str("Lost"), Str(""),
      Str("ordered"), Null, StringObject("Ordered") }
Companies == { Str("Acme"), Str("Globex") }

\* row objects: status may be absent, company is always loaded
RowObjects ==
    { Obj([f \in {"status", "company"} |->
              IF f = "status" THEN s ELSE c]) : s \in StatusValues, c \in Companies }
    \cup { Obj([f \in {"company"} |-> c]) : c \in Companies }
Docs == RowObjects \cup { Null, Undefined }

\* frappe._messages: the translation table of the session's language
English == [m \in {} |-> ""]
German ==
    [m \in {"Ordered", "Lost", "Rejected", "purple", "darkgrey", "status"} |->
        CASE m = "Ordered" -> "Bestellt"
          [] m = "Lost" -> "Verloren"
          [] m = "Rejected" -> "Abgelehnt"
          [] m = "purple" -> "lila"
          [] m = "darkgrey" -> "dunkelgrau"
          [] m = "status" -> "Status"]
MessageTables == { English, German }

\* another script's entry, present or not when this script loads
OtherSettings ==
    [t |-> "settings",
     add_fields |-> <<"supplier_name", "status">>,
     get_indicator |-> "purchase_order_list.get_indicator"]

VARIABLES
    listview_settings,  \* frappe.listview_settings: doctype -> entry
    messages,           \* the translation table behind __
    docs,               \* the rows the host renders
    result,             \* per row, the completion of its latest get_indicator call
    calls               \* per row, how many times get_indicator was called

vars == <<listview_settings, messages, docs, result, calls>>

Rows == 1..NumDocs

\* ------------------------------------------------------------- the script
\* __(txt): the translation of txt, or txt itself when there is none
Translate(txt) == IF txt \in DOMAIN messages THEN messages[txt] ELSE txt

\* doc.status on an object: an absent property reads as undefined
GetStatus(doc) ==
    IF "status" \in DOMAIN doc.fields THEN doc.fields["status"] ELSE Undefined

add_fields_reordered == <<"supplier", "status", "base_grand_total", "company", "currency">>
add_fields == <<"supplier", "base_grand_total", "status", "company", "currency">>

get_indicator_rejected(doc) ==
    IF doc.t \in {"null", "undefined"}
    THEN Throw("TypeError")
    ELSE IF StrictEquals(GetStatus(doc), Str("Ordered"))
         THEN Return(Array(<<Translate("Ordered"), "purple", "status,=,Ordered">>))
         ELSE IF StrictEquals(GetStatus(doc), Str("Rejected"))
              THEN Return(Array(<<Translate("Rejected"), "darkgrey", "status,=,Rejected">>))
              ELSE Return(Undefined)

get_indicator_swapped(doc) ==
    IF doc.t \in {"null", "undefined"}
    THEN Throw("TypeError")
    ELSE IF StrictEquals(GetStatus(doc), Str("Ordered"))
         THEN Return(Array(<<Translate("Ordered"), "darkgrey", "status,=,Ordered">>))
         ELSE IF StrictEquals(GetStatus(doc), Str("Rejected"))
              THEN Return(Array(<<Translate("Lost"), "purple", "status,=,Lost">>))
              ELSE Return(Undefined)

get_indicator_counting(doc) ==
    IF doc.t \in {"null", "undefined"}
    THEN Throw("TypeError")
    ELSE IF StrictEquals(GetStatus(doc), Str("Ordered"))
         THEN IF \E r \in Rows : calls[r] > 0
              THEN Return(Undefined)
              ELSE Return(Array(<<Translate("Ordered"), "purple", "status,=,Ordered">>))
         ELSE IF StrictEquals(GetStatus(doc), Str("Rejected"))
              THEN Return(Array(<<Translate("Lost"), "darkgrey", "status,=,Lost">>))
              ELSE Return(Undefined)

get_indicator_lowercasing(doc) ==
    IF doc.t \in {"null", "undefined"} \/ GetStatus(doc).t \in {"null", "undefined"}
    THEN Throw("TypeError")
    ELSE IF StrictEquals(GetStatus(doc), Str("Ordered"))
         THEN Return(Array(<<Translate("Ordered"), "purple", "status,=,Ordered">>))
         ELSE IF StrictEquals(GetStatus(doc), Str("Rejected"))
              THEN Return(Array(<<Translate("Lost"), "darkgrey", "status,=,Lost">>))
              ELSE Return(Undefined)

get_indicator_company(doc) ==
    IF doc.t \in {"null", "undefined"}
    THEN Throw("TypeError")
    ELSE IF StrictEquals(GetStatus(doc), Str("Ordered"))
         THEN Return(Array(<<Translate("Ordered"), "purple", "status,=,Ordered">>))
         ELSE IF StrictEquals(GetStatus(doc), Str("Rejected"))
                 /\ doc.fields["company"] = Str("Acme")
              THEN Return(Array(<<Translate("Lost"), "darkgrey", "status,=,Lost">>))
              ELSE Return(Undefined)

get_indicator_translating(doc) ==
    IF doc.t \in {"null", "undefined"}
    THEN Throw("TypeError")
    ELSE IF StrictEquals(GetStatus(doc), Str("Ordered"))
         THEN Return(Array(<<Translate("Ordered"), Translate("purple"), "status,=,Ordered">>))
         ELSE IF StrictEquals(GetStatus(doc), Str("Rejected"))
              THEN Return(Array(<<Translate("Lost"), Translate("darkgrey"), "status,=,Lost">>))
              ELSE Return(Undefined)

\* get_indicator: function(doc) { ... }
\* reading doc.status of null or undefined raises a TypeError; a function
\* that ends without a return statement returns undefined
get_indicator(doc) ==
    IF doc.t \in {"null", "undefined"}
    THEN Throw("TypeError")
    ELSE IF StrictEquals(GetStatus(doc), Str("Ordered"))
         THEN Return(Array(<<Translate("Ordered"), "purple", "status,=,Ordered">>))
         ELSE IF StrictEquals(GetStatus(doc), Str("Rejected"))
              THEN Return(Array(<<Translate("Lost"), "darkgrey", "status,=,Lost">>))
              ELSE Return(Undefined)

\* the object literal assigned to frappe.listview_settings['Supplier Quotation']
SupplierQuotationSettings ==
    [t |-> "settings",
     add_fields |-> add_fields,
     get_indicator |-> "supplier_quotation_list.get_indicator"]

loaded == listview_settings[SQ] # Undefined

\* ------------------------------------------------------------ the machine
Init ==
    /\ listview_settings \in
          { [d \in Doctypes |-> IF d = SQ THEN Undefined ELSE e] :
                e \in {Undefined, OtherSettings} }
    /\ messages \in MessageTables
    /\ docs \in [Rows -> Docs]
    /\ result = [r \in Rows |-> NotCalled]
    /\ calls = [r \in Rows |-> 0]

LoadClobbering ==
    /\ ~loaded
    /\ listview_settings' = [d \in Doctypes |->
                                IF d = SQ THEN SupplierQuotationSettings ELSE Undefined]
    /\ UNCHANGED <<messages, docs, result, calls>>

\* the script runs once: the assignment of line 1
Load ==
    /\ ~loaded
    /\ listview_settings' = [listview_settings EXCEPT ![SQ] = SupplierQuotationSettings]
    /\ UNCHANGED <<messages, docs, result, calls>>

CallRewritingStatus(r) ==
    /\ loaded
    /\ calls[r] < MaxCalls
    /\ result' = [result EXCEPT ![r] = get_indicator(docs[r])]
    /\ calls' = [calls EXCEPT ![r] = @ + 1]
    /\ docs' = [docs EXCEPT ![r] =
                   IF docs[r].t = "object" /\ GetStatus(docs[r]) = Str("Rejected")
                   THEN Obj([docs[r].fields EXCEPT !["status"] = Str("Lost")])
                   ELSE docs[r]]
    /\ UNCHANGED <<listview_settings, messages>>

\* the host renders row r: it calls the registered get_indicator with the row
Call(r) ==
    /\ loaded
    /\ calls[r] < MaxCalls
    /\ result' = [result EXCEPT ![r] = get_indicator(docs[r])]
    /\ calls' = [calls EXCEPT ![r] = @ + 1]
    /\ UNCHANGED <<listview_settings, messages, docs>>

Next ==
    \/ Load
    \/ \E r \in Rows : Call(r)

Spec == Init /\ [][Next]_vars

TypeOK ==
    /\ docs \in [Rows -> Docs]
    /\ messages \in MessageTables
    /\ calls \in [Rows -> 0..MaxCalls]
    /\ \A r \in Rows : result[r].kind \in {"none", "return", "throw"}

\* ------------------------------------------------------------ vocabulary
Called(r) == calls[r] > 0
IsRecord(d) == d.t = "object"
HasStatus(d, s) == IsRecord(d) /\ GetStatus(d) = Str(s)
\* the call on row r returned an indicator array
GotIndicator(r) == result[r].kind = "return" /\ result[r].value.t = "array"
\* the call on row r returned nothing (undefined)
GotNoIndicator(r) == result[r] = Return(Undefined)
Label(r) == result[r].value.items[1]
Color(r) == result[r].value.items[2]
Filter(r) == result[r].value.items[3]
\* the host's filter expression for (field, operator, value)
FilterExpr(field, op, value) == field \o "," \o op \o "," \o value

\* ---------------------------------------------------------------- claims

\* C1: a row whose status is exactly "Rejected" gets the indicator whose
\* label is the translation of "Lost", whose color is "darkgrey" and whose
\* filter is status = Lost; the filter value is not the row's own status.
C1_RejectedIsLost ==
    \A r \in Rows :
        Called(r) /\ HasStatus(docs[r], "Rejected") =>
            /\ GotIndicator(r)
            /\ Len(result[r].value.items) = 3
            /\ Label(r) = Translate("Lost")
            /\ Color(r) = "darkgrey"
            /\ Filter(r) = FilterExpr("status", "=", "Lost")
            /\ Filter(r) # FilterExpr("status", "=", "Rejected")

C1_Witness ==
    \E r \in Rows :
        /\ Called(r) /\ HasStatus(docs[r], "Rejected")
        /\ messages = German
        /\ GotIndicator(r) /\ Label(r) = "Verloren"

\* C2: a row whose status is exactly "Ordered" gets the indicator whose
\* label is the translation of "Ordered", whose color is "purple" and whose
\* filter is status = Ordered.
C2_OrderedIsPurple ==
    \A r \in Rows :
        Called(r) /\ HasStatus(docs[r], "Ordered") =>
            /\ GotIndicator(r)
            /\ Len(result[r].value.items) = 3
            /\ Label(r) = Translate("Ordered")
            /\ Color(r) = "purple"
            /\ Filter(r) = FilterExpr("status", "=", "Ordered")

C2_Witness ==
    \E r \in Rows :
        /\ Called(r) /\ HasStatus(docs[r], "Ordered")
        /\ messages = English
        /\ GotIndicator(r) /\ Label(r) = "Ordered" /\ Color(r) = "purple"

\* C3: a row whose status is anything but the primitive strings "Ordered"
\* and "Rejected" (another string, another spelling, the empty string, null,
\* a boxed string, no status field at all) gets no indicator.
C3_OtherStatusNoIndicator ==
    \A r \in Rows :
        ( /\ Called(r)
          /\ IsRecord(docs[r])
          /\ GetStatus(docs[r]) \notin {Str("Ordered"), Str("Rejected")} )
        => GotNoIndicator(r)

C3_Witness ==
    \E r, q \in Rows :
        /\ Called(r) /\ IsRecord(docs[r]) /\ "status" \notin DOMAIN docs[r].fields
        /\ GotNoIndicator(r)
        /\ Called(q) /\ IsRecord(docs[q])
        /\ GetStatus(docs[q]) \in {Str("ordered"), Null, Str(""), StringObject("Ordered")}
        /\ GotNoIndicator(q)

\* C4: a repeated call on a row completes as the earlier call on that row
\* did, and two rows holding the same record complete alike, whatever calls
\* were made before each of them.
C4_Idempotent ==
    /\ [][\A r \in Rows : Called(r) => result'[r] = result[r]]_vars
    /\ [](\A r, q \in Rows :
             Called(r) /\ Called(q) /\ docs[r] = docs[q] => result[r] = result[q])

C4_Witness ==
    \E r, q \in Rows :
        /\ r # q
        /\ calls[r] >= 2 /\ Called(q)
        /\ docs[r] = docs[q]
        /\ GotIndicator(r) /\ result[q] = result[r]

\* C5: a call of get_indicator changes nothing but its result: the rows,
\* the registry and the translation table are as they were before the call.
C5_NoSideEffect ==
    [][(\E r \in Rows : calls'[r] # calls[r]) =>
           /\ docs' = docs
           /\ listview_settings' = listview_settings
           /\ messages' = messages]_vars

C5_Witness ==
    \E r \in Rows :
        /\ calls[r] >= 2
        /\ HasStatus(docs[r], "Rejected")
        /\ docs[r].fields["company"] = Str("Globex")
        /\ listview_settings[SQ] = SupplierQuotationSettings

\* C6: once the script is loaded, add_fields is supplier, base_grand_total,
\* status, company, currency, in this order, whatever calls were made.
C6_AddFields ==
    loaded =>
        listview_settings[SQ].add_fields =
            <<"supplier", "base_grand_total", "status", "company", "currency">>

C6_Witness ==
    /\ loaded
    /\ Len(listview_settings[SQ].add_fields) = 5
    /\ \A r \in Rows : Called(r)

\* C7: loading puts one entry holding add_fields and get_indicator under
\* "Supplier Quotation", leaves the entry of every other doctype as it was,
\* and no later step changes the registry.
C7_Registration ==
    [][ /\ (~loaded /\ loaded') =>
              /\ listview_settings'[SQ].t = "settings"
              /\ {"add_fields", "get_indicator"} \subseteq DOMAIN listview_settings'[SQ]
              /\ listview_settings'[SQ].get_indicator = "supplier_quotation_list.get_indicator"
              /\ \A d \in Doctypes \ {SQ} : listview_settings'[d] = listview_settings[d]
        /\ loaded => listview_settings' = listview_settings ]_vars

C7_Witness ==
    /\ loaded
    /\ listview_settings[PO] = OtherSettings
    /\ \E r \in Rows : Called(r)

\* C8 as stated: no call of get_indicator ends in an error, a null or
\* undefined record included.
C8_Original ==
    \A r \in Rows : Called(r) => result[r].kind = "return"

\* C8, amended: a call with a record object returns, and returns no
\* indicator when the status field is absent or not a string; a call with
\* null or undefined for the record ends in a TypeError.
C8_ReturnsForRecords ==
    \A r \in Rows :
        Called(r) =>
            /\ IsRecord(docs[r]) => result[r].kind = "return"
            /\ (IsRecord(docs[r]) /\ GetStatus(docs[r]).t # "string") => GotNoIndicator(r)
            /\ docs[r] \in {Null, Undefined} => result[r] = Throw("TypeError")

C8_Witness ==
    \E r, q \in Rows :
        /\ Called(r) /\ IsRecord(docs[r]) /\ GetStatus(docs[r]) \in {Undefined, Null}
        /\ result[r].kind = "return"
        /\ Called(q) /\ docs[q] = Null /\ result[q].kind = "throw"

\* C9: two record objects with the same status get the same result,
\* whatever their other fields.
C9_DependsOnStatusOnly ==
    \A r, q \in Rows :
        ( /\ Called(r) /\ Called(q)
          /\ IsRecord(docs[r]) /\ IsRecord(docs[q])
          /\ GetStatus(docs[r]) = GetStatus(docs[q]) )
        => result[r] = result[q]

C9_Witness ==
    \E r, q \in Rows :
        /\ Called(r) /\ Called(q)
        /\ HasStatus(docs[r], "Rejected") /\ HasStatus(docs[q], "Rejected")
        /\ docs[r].fields["company"] # docs[q].fields["company"]
        /\ GotIndicator(r) /\ GotIndicator(q)

\* C10: under every translation table, a returned indicator has an
\* untranslated color (purple or darkgrey) and an untranslated filter on
\* status with operator =, and its label is the translation of the filter's
\* value.
C10_OnlyLabelTranslated ==
    \A r \in Rows :
        Called(r) /\ GotIndicator(r) =>
            /\ Color(r) \in {"purple", "darkgrey"}
            /\ \E v \in {"Ordered", "Lost"} :
                  /\ Filter(r) = FilterExpr("status", "=", v)
                  /\ Label(r) = Translate(v)

C10_Witness ==
    \E r \in Rows :
        /\ Called(r) /\ GotIndicator(r)
        /\ messages = German
        /\ Label(r) = "Bestellt" /\ Color(r) = "purple"

====
